---- MODULE Spec2Model ----
(***************************************************************************)
(* Verification model of the kernel verification engine of seismograph    *)
(* (vkernel/kernel_image_fw.c): VerifyKernelHeader, VerifyKernelConfig,    *)
(* VerifyKernelData, VerifyKernel, GetLogicalKernelVersion and the A/B     *)
(* selection policy VerifyKernelDriver_f with its rollback counter store.  *)
(***************************************************************************)
EXTENDS Integers, Sequences, FiniteSets, TLC

(***************************************************************************)
(* Bounds of the model.                                                    *)
(***************************************************************************)
MaxKernelVersion == 1

MaxPriority == 1

MaxTries == 1

(***************************************************************************)
(* Error codes, in the order of kVerifyKernelErrors.                       *)
(***************************************************************************)
VERIFY_KERNEL_SUCCESS == 0

VERIFY_KERNEL_INVALID_IMAGE == 1

VERIFY_KERNEL_KEY_SIGNATURE_FAILED == 2

VERIFY_KERNEL_INVALID_ALGORITHM == 3

VERIFY_KERNEL_CONFIG_SIGNATURE_FAILED == 4

VERIFY_KERNEL_SIGNATURE_FAILED == 5

VERIFY_KERNEL_WRONG_MAGIC == 6

(***************************************************************************)
(* Boot paths returned by the driver.                                      *)
(***************************************************************************)
BOOT_KERNEL_A_CONTINUE == 1

BOOT_KERNEL_B_CONTINUE == 2

BOOT_KERNEL_RECOVERY_CONTINUE == 3

(***************************************************************************)
(* The two slots of the rollback counter store.                            *)
(***************************************************************************)
KERNEL_KEY_VERSION == "KERNEL_KEY_VERSION"

KERNEL_VERSION == "KERNEL_VERSION"

Slots == {KERNEL_KEY_VERSION, KERNEL_VERSION}

(***************************************************************************)
(* Lookup tables of the crypto library, indexed by algorithm ID            *)
(* (sequence position = ID + 1).                                           *)
(***************************************************************************)
siglen_map == <<128, 128, 128, 256, 256, 256, 512, 512, 512, 1024, 1024, 1024>>

kNumAlgorithms == Len(siglen_map)

\* What an out-of-bounds table read yields is not defined by the tables.
OutOfBoundsRead == 0 - 1

SigLen(algorithm) ==
  IF algorithm \in 0..(kNumAlgorithms - 1) THEN siglen_map[algorithm + 1]
  ELSE OutOfBoundsRead

\* The values a read of siglen_map[algorithm] can yield: the table entry, or
\* whatever lies behind the table when the ID is out of range.
UndefinedReads == {OutOfBoundsRead, 0, siglen_map[1]}

SigLenReads(algorithm) ==
  IF algorithm \in 0..(kNumAlgorithms - 1) THEN {siglen_map[algorithm + 1]}
  ELSE UndefinedReads

RSAProcessedKeySize(algorithm) ==
  IF algorithm \in 0..(kNumAlgorithms - 1)
  THEN 2 * siglen_map[algorithm + 1] + 4 + 4
  ELSE OutOfBoundsRead

(***************************************************************************)
(* sizeof of the KernelImage fields used by the offset computations.       *)
(***************************************************************************)
FIELD_LEN(f) ==
  CASE f = "magic" -> 8
    [] f = "header_version" -> 2
    [] f = "header_len" -> 2
    [] f = "firmware_sign_algorithm" -> 2
    [] f = "kernel_sign_algorithm" -> 2
    [] f = "kernel_key_version" -> 2
    [] f = "header_checksum" -> 64
    [] f = "kernel_version" -> 2
    [] f = "options.version" -> 4
    [] f = "options.cmd_line" -> 4096
    [] f = "options.kernel_len" -> 8
    [] f = "options.kernel_load_addr" -> 8
    [] f = "options.kernel_entry_addr" -> 8

KERNEL_MAGIC_SIZE == 8

KERNEL_CONFIG_FIELD_LEN ==
  FIELD_LEN("kernel_version") + FIELD_LEN("options.version")
  + FIELD_LEN("options.cmd_line") + FIELD_LEN("options.kernel_len")
  + FIELD_LEN("options.kernel_load_addr") + FIELD_LEN("options.kernel_entry_addr")

base_header_checksum_offset ==
  FIELD_LEN("header_version") + FIELD_LEN("header_len")
  + FIELD_LEN("firmware_sign_algorithm") + FIELD_LEN("kernel_sign_algorithm")
  + FIELD_LEN("kernel_key_version")

\* Mutant: the key size of algorithm 0 is taken whatever the declared algorithm.
ExpectedHeaderLen_AnyKey(kernel_sign_algorithm) ==
  base_header_checksum_offset + RSAProcessedKeySize(0) + FIELD_LEN("header_checksum")

ExpectedHeaderLen(kernel_sign_algorithm) ==
  base_header_checksum_offset + RSAProcessedKeySize(kernel_sign_algorithm)
  + FIELD_LEN("header_checksum")

(***************************************************************************)
(* Kernel blobs.  A blob is described by the fields the verifier reads     *)
(* from it and by the answers the digest and signature providers give on   *)
(* its bytes.                                                              *)
(***************************************************************************)
AlgorithmIds == {0, kNumAlgorithms - 1, kNumAlgorithms}

\* Values of the 16-bit kernel_key_version and kernel_version fields.
KeyVersions == {0, 1}

KernelVersions == 0..MaxKernelVersion

\* Values of the 64-bit options.kernel_len field.
KernelLens == {1, 2}

HeaderLens == {0} \cup {ExpectedHeaderLen(a) : a \in AlgorithmIds \cap 0..(kNumAlgorithms - 1)}

Blobs ==
  [ magic_ok : BOOLEAN,                    \* first KERNEL_MAGIC_SIZE bytes = KERNEL_MAGIC
    header_len : HeaderLens,
    firmware_sign_algorithm : AlgorithmIds,
    kernel_sign_algorithm : AlgorithmIds,
    kernel_key_version : KeyVersions,
    kernel_version : KernelVersions,
    kernel_len : KernelLens,
    header_checksum_ok : BOOLEAN,          \* SHA-512 of the header = header_checksum
    key_signature_ok : BOOLEAN,            \* firmware-key signature over the header
    key_parse_ok : BOOLEAN,                \* RSAPublicKeyFromBuf yields a key
    config_signature_ok : BOOLEAN,         \* signature over the config region
    data_signature_ok : BOOLEAN ]          \* signature over config + payload digest

Ev(fn, op, arg) == [fn |-> fn, op |-> op, arg |-> arg]

\* The objects the verifier holds by pointer; a Free or RSAPublicKeyFree call
\* carries the pointer it is handed.  NullObj is the NULL pointer.
NullObj == 0

\* header_checksum, the result of DigestBuf.
HeaderChecksumObj == 1

\* digest, the result of DigestFinal.
DigestObj == 2

\* kernel_sign_key, the result of RSAPublicKeyFromBuf when the key parses.
KernelSignKeyObj == 3

\* What RSAPublicKeyFromBuf hands back for the key of blob b.
ParsedKey(b) == IF b.key_parse_ok THEN KernelSignKeyObj ELSE NullObj

Unwritten == 0 - 1

(***************************************************************************)
(* VerifyKernelHeader                                                      *)
(***************************************************************************)
\* Mutant: the range check accepts the first unsupported ID.
AlgorithmInRange_OffByOne(algorithm) == algorithm <= kNumAlgorithms

AlgorithmInRange(algorithm) == algorithm < kNumAlgorithms

HeaderRet(code, fa, ka, hl, events) ==
  [code |-> code, firmware_algorithm |-> fa, kernel_algorithm |-> ka,
   kernel_header_len |-> hl, events |-> events]

VerifyKernelHeader(b, dev_mode) ==
  LET fn == "VerifyKernelHeader"
      fa == b.firmware_sign_algorithm
      ka == b.kernel_sign_algorithm
      e1 == <<Ev(fn, "CheckAlgorithm", fa)>>
      e2 == e1 \o <<Ev(fn, "CheckAlgorithm", ka)>>
      e3 == e2 \o <<Ev(fn, "RSAProcessedKeySize", ka),
                    Ev(fn, "RSAProcessedKeySize", fa),
                    Ev(fn, "CheckHeaderLen", b.header_len)>>
      e4 == e3 \o <<Ev(fn, "DigestBuf", b.header_len - FIELD_LEN("header_checksum")),
                    Ev(fn, "SafeMemcmp", base_header_checksum_offset + RSAProcessedKeySize(ka)),
                    Ev(fn, "Free", HeaderChecksumObj)>>
      e5 == e4 \o <<Ev(fn, "RSAVerifyBinary_f", fa)>>
  IN  IF ~AlgorithmInRange(fa)
      THEN HeaderRet(VERIFY_KERNEL_INVALID_ALGORITHM, Unwritten, Unwritten, Unwritten, e1)
      ELSE IF ~AlgorithmInRange(ka)
      THEN HeaderRet(VERIFY_KERNEL_INVALID_ALGORITHM, Unwritten, Unwritten, Unwritten, e2)
      ELSE IF b.header_len # ExpectedHeaderLen(ka)
      THEN HeaderRet(VERIFY_KERNEL_INVALID_IMAGE, fa, ka, Unwritten, e3)
      ELSE IF ~b.header_checksum_ok
      THEN HeaderRet(VERIFY_KERNEL_INVALID_IMAGE, fa, ka, b.header_len, e4)
      ELSE IF ~dev_mode
      THEN IF ~b.key_signature_ok
           THEN HeaderRet(VERIFY_KERNEL_KEY_SIGNATURE_FAILED, fa, ka, b.header_len, e5)
           ELSE HeaderRet(0, fa, ka, b.header_len, e5)
      ELSE HeaderRet(0, fa, ka, b.header_len, e4)

(***************************************************************************)
(* VerifyKernelConfig                                                      *)
(***************************************************************************)
\* Mutant: kernel_len is copied out before the signature is checked.
VerifyKernelConfig_ReadsFirst(b, algorithm) ==
  LET fn == "VerifyKernelConfig"
      e1 == <<Ev(fn, "Memcpy", FIELD_LEN("kernel_version") + FIELD_LEN("options.version")
                               + FIELD_LEN("options.cmd_line")),
              Ev(fn, "RSAVerifyBinary_f", algorithm)>>
  IN  [code |-> IF b.config_signature_ok THEN 0 ELSE VERIFY_KERNEL_CONFIG_SIGNATURE_FAILED,
       kernel_len_written |-> TRUE, kernel_len |-> b.kernel_len, events |-> e1]

VerifyKernelConfig(b, algorithm) ==
  LET fn == "VerifyKernelConfig"
      e1 == <<Ev(fn, "RSAVerifyBinary_f", algorithm)>>
      kernel_len_offset == FIELD_LEN("kernel_version") + FIELD_LEN("options.version")
                           + FIELD_LEN("options.cmd_line")
  IN  IF ~b.config_signature_ok
      THEN [code |-> VERIFY_KERNEL_CONFIG_SIGNATURE_FAILED, kernel_len_written |-> FALSE,
            kernel_len |-> Unwritten, events |-> e1]
      ELSE [code |-> 0, kernel_len_written |-> TRUE, kernel_len |-> b.kernel_len,
            events |-> e1 \o <<Ev(fn, "Memcpy", kernel_len_offset)>>]

(***************************************************************************)
(* VerifyKernelData                                                        *)
(***************************************************************************)
\* Mutant: the payload is digested from kernel_data_start, signature included.
VerifyKernelData_PayloadAtSignature(b, kernel_len, algorithm, signature_len) ==
  LET fn == "VerifyKernelData"
      e1 == <<Ev(fn, "siglen_map", algorithm),
              Ev(fn, "DigestInit", algorithm),
              Ev(fn, "DigestUpdate", <<"kernel_config_start", 0, KERNEL_CONFIG_FIELD_LEN>>),
              Ev(fn, "DigestUpdate", <<"kernel_data_start", 0, kernel_len>>),
              Ev(fn, "DigestFinal", 0),
              Ev(fn, "RSAVerifyBinaryWithDigest_f", <<"kernel_data_start", 0, algorithm>>),
              Ev(fn, "Free", DigestObj)>>
  IN  IF ~b.data_signature_ok
      THEN [code |-> VERIFY_KERNEL_SIGNATURE_FAILED, events |-> e1]
      ELSE [code |-> 0, events |-> e1]

\* signature_len is what the read siglen_map[algorithm] of line 141 yields.
\* A span <<base, offset, len>> is len bytes at base + offset.
VerifyKernelData(b, kernel_len, algorithm, signature_len) ==
  LET fn == "VerifyKernelData"
      e1 == <<Ev(fn, "siglen_map", algorithm),
              Ev(fn, "DigestInit", algorithm),
              Ev(fn, "DigestUpdate", <<"kernel_config_start", 0, KERNEL_CONFIG_FIELD_LEN>>),
              Ev(fn, "DigestUpdate", <<"kernel_data_start", signature_len, kernel_len>>),
              Ev(fn, "DigestFinal", 0),
              Ev(fn, "RSAVerifyBinaryWithDigest_f", <<"kernel_data_start", 0, algorithm>>),
              Ev(fn, "Free", DigestObj)>>
  IN  IF ~b.data_signature_ok
      THEN [code |-> VERIFY_KERNEL_SIGNATURE_FAILED, events |-> e1]
      ELSE [code |-> 0, events |-> e1]

(***************************************************************************)
(* VerifyKernel                                                            *)
(***************************************************************************)
\* Mutant: the key is not freed when VerifyKernelData fails.
VerifyKernelStages_LeakOnDataFailure(b, h, c, d) ==
  LET fn == "VerifyKernel"
      header_ptr == KERNEL_MAGIC_SIZE
      config_ptr == header_ptr + h.kernel_header_len + SigLen(h.firmware_algorithm)
      kernel_ptr == config_ptr + KERNEL_CONFIG_FIELD_LEN + SigLen(h.kernel_algorithm)
      e1 == <<Ev(fn, "SafeMemcmp", 0)>>
      e3 == <<Ev(fn, "RSAProcessedKeySize", h.kernel_algorithm),
              Ev(fn, "RSAPublicKeyFromBuf", RSAProcessedKeySize(h.kernel_algorithm)),
              Ev(fn, "siglen_map", h.kernel_algorithm),
              Ev(fn, "siglen_map", h.firmware_algorithm),
              Ev(fn, "config_ptr", config_ptr)>>
      e4 == <<Ev(fn, "kernel_ptr", kernel_ptr)>>
      free == <<Ev(fn, "RSAPublicKeyFree", ParsedKey(b))>>
  IN  IF ~b.magic_ok
      THEN [code |-> VERIFY_KERNEL_WRONG_MAGIC, events |-> e1]
      ELSE IF h.code # 0
      THEN [code |-> h.code, events |-> e1 \o h.events]
      ELSE IF c.code # 0
      THEN [code |-> c.code, events |-> e1 \o h.events \o e3 \o c.events \o free]
      ELSE IF d.code # 0
      THEN [code |-> d.code,
            events |-> e1 \o h.events \o e3 \o c.events \o e4 \o d.events]
      ELSE [code |-> 0,
            events |-> e1 \o h.events \o e3 \o c.events \o e4 \o d.events \o free]

\* Lines 183-227, given what the three stage functions return.  Pointers are
\* byte offsets from kernel_blob.
VerifyKernelStages(b, h, c, d) ==
  LET fn == "VerifyKernel"
      header_ptr == KERNEL_MAGIC_SIZE
      config_ptr == header_ptr + h.kernel_header_len + SigLen(h.firmware_algorithm)
      kernel_ptr == config_ptr + KERNEL_CONFIG_FIELD_LEN + SigLen(h.kernel_algorithm)
      e1 == <<Ev(fn, "SafeMemcmp", 0)>>
      e3 == <<Ev(fn, "RSAProcessedKeySize", h.kernel_algorithm),
              Ev(fn, "RSAPublicKeyFromBuf", RSAProcessedKeySize(h.kernel_algorithm)),
              Ev(fn, "siglen_map", h.kernel_algorithm),
              Ev(fn, "siglen_map", h.firmware_algorithm),
              Ev(fn, "config_ptr", config_ptr)>>
      e4 == <<Ev(fn, "kernel_ptr", kernel_ptr)>>
      free == <<Ev(fn, "RSAPublicKeyFree", ParsedKey(b))>>
  IN  IF ~b.magic_ok
      THEN [code |-> VERIFY_KERNEL_WRONG_MAGIC, events |-> e1]
      ELSE IF h.code # 0
      THEN [code |-> h.code, events |-> e1 \o h.events]
      ELSE IF c.code # 0
      THEN [code |-> c.code, events |-> e1 \o h.events \o e3 \o c.events \o free]
      ELSE IF d.code # 0
      THEN [code |-> d.code,
            events |-> e1 \o h.events \o e3 \o c.events \o e4 \o d.events \o free]
      ELSE [code |-> 0,
            events |-> e1 \o h.events \o e3 \o c.events \o e4 \o d.events \o free]

VerifyKernelAfterConfig(b, h, c) ==
  VerifyKernelStages(b, h, c,
                     VerifyKernelData(b, c.kernel_len, h.kernel_algorithm,
                                      SigLen(h.kernel_algorithm)))

VerifyKernelAfterHeader(b, h) ==
  VerifyKernelAfterConfig(b, h, VerifyKernelConfig(b, h.kernel_algorithm))

\* Mutant: dev_mode also waives the config signature.
VerifyKernel_DevModeSkipsConfig(b, dev_mode) ==
  VerifyKernelAfterHeader([b EXCEPT !.config_signature_ok = @ \/ dev_mode],
                          VerifyKernelHeader(b, dev_mode))

VerifyKernel(b, dev_mode) == VerifyKernelAfterHeader(b, VerifyKernelHeader(b, dev_mode))

(***************************************************************************)
(* GetLogicalKernelVersion                                                 *)
(***************************************************************************)
Pow16 == 65536

CombineUint16Pair(hi, lo) == ((hi % Pow16) * Pow16 + (lo % Pow16))

\* Mutant: the header checksum is not skipped on the way to kernel_version.
GetLogicalKernelVersionRun_SkipsNoChecksum(b) ==
  LET fn == "GetLogicalKernelVersion"
      fa == b.firmware_sign_algorithm
      ka == b.kernel_sign_algorithm
      p0 == FIELD_LEN("magic") + FIELD_LEN("header_version") + FIELD_LEN("header_len")
      p1 == p0 + FIELD_LEN("firmware_sign_algorithm")
      p2 == p1 + FIELD_LEN("kernel_sign_algorithm")
      p3 == p2 + FIELD_LEN("kernel_key_version") + RSAProcessedKeySize(ka) + SigLen(fa)
      e0 == <<Ev(fn, "Memcpy", <<"firmware_sign_algorithm", p0>>),
              Ev(fn, "Memcpy", <<"kernel_sign_algorithm", p1>>),
              Ev(fn, "Memcpy", <<"kernel_key_version", p2>>)>>
      e1 == e0 \o <<Ev(fn, "CheckAlgorithm", fa)>>
      e2 == e1 \o <<Ev(fn, "CheckAlgorithm", ka)>>
      e3 == e2 \o <<Ev(fn, "siglen_map", fa),
                    Ev(fn, "RSAProcessedKeySize", ka),
                    Ev(fn, "Memcpy", <<"kernel_version", p3>>)>>
  IN  IF fa >= kNumAlgorithms THEN [value |-> 0, events |-> e1]
      ELSE IF ka >= kNumAlgorithms THEN [value |-> 0, events |-> e2]
      ELSE [value |-> CombineUint16Pair(b.kernel_key_version, b.kernel_version),
            events |-> e3]

\* The function with the reads and lookups it makes; a read <<field, offset>>
\* copies the field from kernel_blob + offset.
GetLogicalKernelVersionRun(b) ==
  LET fn == "GetLogicalKernelVersion"
      fa == b.firmware_sign_algorithm
      ka == b.kernel_sign_algorithm
      p0 == FIELD_LEN("magic") + FIELD_LEN("header_version") + FIELD_LEN("header_len")
      p1 == p0 + FIELD_LEN("firmware_sign_algorithm")
      p2 == p1 + FIELD_LEN("kernel_sign_algorithm")
      p3 == p2 + FIELD_LEN("kernel_key_version") + RSAProcessedKeySize(ka)
            + FIELD_LEN("header_checksum") + SigLen(fa)
      e0 == <<Ev(fn, "Memcpy", <<"firmware_sign_algorithm", p0>>),
              Ev(fn, "Memcpy", <<"kernel_sign_algorithm", p1>>),
              Ev(fn, "Memcpy", <<"kernel_key_version", p2>>)>>
      e1 == e0 \o <<Ev(fn, "CheckAlgorithm", fa)>>
      e2 == e1 \o <<Ev(fn, "CheckAlgorithm", ka)>>
      e3 == e2 \o <<Ev(fn, "siglen_map", fa),
                    Ev(fn, "RSAProcessedKeySize", ka),
                    Ev(fn, "Memcpy", <<"kernel_version", p3>>)>>
  IN  IF fa >= kNumAlgorithms THEN [value |-> 0, events |-> e1]
      ELSE IF ka >= kNumAlgorithms THEN [value |-> 0, events |-> e2]
      ELSE [value |-> CombineUint16Pair(b.kernel_key_version, b.kernel_version),
            events |-> e3]

\* Mutant: the algorithm IDs are not checked.
GetLogicalKernelVersion_NoRangeCheck(b) ==
  CombineUint16Pair(b.kernel_key_version, b.kernel_version)

GetLogicalKernelVersion(b) == GetLogicalKernelVersionRun(b).value

(***************************************************************************)
(* Rollback counter store: read, write and lock of one slot.  A locked     *)
(* slot refuses writes; locking twice is allowed.                          *)
(***************************************************************************)
GetStoredVersion(st, slot) == st.value[slot]

WriteStoredVersion(st, slot, v) ==
  IF st.locked[slot] THEN st ELSE [st EXCEPT !.value[slot] = v]

LockStoredVersion(st, slot) == [st EXCEPT !.locked[slot] = TRUE]

(***************************************************************************)
(* Kernel entries (A/B candidates) handed to the driver.                   *)
(***************************************************************************)
GoodBlob(kv, v) ==
  [ magic_ok |-> TRUE, header_len |-> ExpectedHeaderLen(0),
    firmware_sign_algorithm |-> 0, kernel_sign_algorithm |-> 0,
    kernel_key_version |-> kv, kernel_version |-> v, kernel_len |-> 1,
    header_checksum_ok |-> TRUE, key_signature_ok |-> TRUE, key_parse_ok |-> TRUE,
    config_signature_ok |-> TRUE, data_signature_ok |-> TRUE ]

\* The blobs the driver is run on: well-formed ones, ones whose header is
\* not signed by the firmware key (accepted in dev mode only), and one with
\* an unsupported kernel algorithm.
DriverBlobs ==
  {GoodBlob(kv, v) : kv \in KeyVersions, v \in KernelVersions}
  \cup {[GoodBlob(kv, v) EXCEPT !.key_signature_ok = FALSE] :
          kv \in KeyVersions, v \in KernelVersions}
  \cup {[GoodBlob(1, MaxKernelVersion) EXCEPT !.kernel_sign_algorithm = kNumAlgorithms]}

KernelEntries ==
  [ kernel_blob : DriverBlobs,
    boot_priority : 0..MaxPriority,
    boot_tries_remaining : 0..MaxTries,
    boot_success_flag : BOOLEAN ]

StoreValues ==
  {[slot \in Slots |-> IF slot = KERNEL_KEY_VERSION THEN kv ELSE v] :
     kv \in KeyVersions, v \in KernelVersions}

Stores == [value : StoreValues, locked : [Slots -> BOOLEAN]]

(***************************************************************************)
(* VerifyKernelDriver_f                                                    *)
(***************************************************************************)
DEv(op, tag, which, val) == [op |-> op, tag |-> tag, which |-> which, val |-> val]

\* Mutant: the larger of the two.
Min_Larger(a, b) == IF a < b THEN b ELSE a

Min(a, b) == IF a < b THEN a ELSE b

\* Mutant: kernel B goes first on a tie.
TryAFirst_Strict(priorityA, priorityB) == priorityA > priorityB

\* try_kernel[0] is kernel A iff this holds.
TryAFirst(priorityA, priorityB) == priorityA >= priorityB

\* Mutant: every candidate is tried.
Eligible_Always(k) == TRUE

Eligible(k) == k.boot_success_flag \/ k.boot_tries_remaining # 0

\* Mutant: the decrement is not guarded.
DecrementTries_Unguarded(tries) == tries - 1

DecrementTries(tries) == IF tries > 0 THEN tries - 1 ELSE tries

\* Mutant: no candidate is refused as a rollback.
IsRollback_Never(stored_lversion, lversion) == FALSE

IsRollback(stored_lversion, lversion) == stored_lversion > lversion

\* Mutant: the floor update does not compare the other version with the store.
NeedFloorUpdate_NoCompare(i, stored_lversion, other_lversion) == i = 0

NeedFloorUpdate(i, stored_lversion, other_lversion) ==
  i = 0 /\ stored_lversion < other_lversion

\* Mutant: the shift is left out.
HighHalf_NoShift(lversion) == lversion % Pow16

HighHalf(lversion) == (lversion \div Pow16) % Pow16

LowHalf(lversion) == lversion % Pow16

EntryOf(s, which) == IF which = BOOT_KERNEL_A_CONTINUE THEN s.kernelA ELSE s.kernelB

WithEntry(s, which, k) ==
  IF which = BOOT_KERNEL_A_CONTINUE THEN [s EXCEPT !.kernelA = k]
  ELSE [s EXCEPT !.kernelB = k]

\* Lines 291-322: the values computed before the loop.
DriverEntry(kA, kB, st) ==
  LET aFirst == TryAFirst(kA.boot_priority, kB.boot_priority)
      lvA == GetLogicalKernelVersion(kA.kernel_blob)
      lvB == GetLogicalKernelVersion(kB.kernel_blob)
  IN  [ kernelA |-> kA, kernelB |-> kB, store |-> st,
        min_lversion |-> Min(lvA, lvB),
        stored_lversion |-> CombineUint16Pair(GetStoredVersion(st, KERNEL_KEY_VERSION),
                                              GetStoredVersion(st, KERNEL_VERSION)),
        try_kernel_which |-> IF aFirst
                             THEN <<BOOT_KERNEL_A_CONTINUE, BOOT_KERNEL_B_CONTINUE>>
                             ELSE <<BOOT_KERNEL_B_CONTINUE, BOOT_KERNEL_A_CONTINUE>>,
        try_kernel_lversion |-> IF aFirst THEN <<lvA, lvB>> ELSE <<lvB, lvA>>,
        kernel_to_boot |-> BOOT_KERNEL_RECOVERY_CONTINUE,
        found |-> FALSE,
        trace |-> <<DEv("GetStoredVersion", KERNEL_KEY_VERSION, 0, GetStoredVersion(st, KERNEL_KEY_VERSION)),
                    DEv("GetStoredVersion", KERNEL_VERSION, 0, GetStoredVersion(st, KERNEL_VERSION))>> ]

\* Mutant: the re-verified kernel's own version is written, not the minimum.
WriteFloor_OtherVersion(s) ==
  LET hi == HighHalf(s.try_kernel_lversion[2])
      lo == LowHalf(s.try_kernel_lversion[2])
  IN  [s EXCEPT
         !.store = WriteStoredVersion(WriteStoredVersion(@, KERNEL_KEY_VERSION, hi),
                                      KERNEL_VERSION, lo),
         !.stored_lversion = s.try_kernel_lversion[2],
         !.trace = @ \o <<DEv("WriteStoredVersion", KERNEL_KEY_VERSION, 0, hi),
                          DEv("WriteStoredVersion", KERNEL_VERSION, 0, lo)>>]

\* Lines 343-347: the two writes that raise the stored version.
WriteFloor(s) ==
  LET hi == HighHalf(s.min_lversion)
      lo == LowHalf(s.min_lversion)
  IN  [s EXCEPT
         !.store = WriteStoredVersion(WriteStoredVersion(@, KERNEL_KEY_VERSION, hi),
                                      KERNEL_VERSION, lo),
         !.stored_lversion = s.min_lversion,
         !.trace = @ \o <<DEv("WriteStoredVersion", KERNEL_KEY_VERSION, 0, hi),
                          DEv("WriteStoredVersion", KERNEL_VERSION, 0, lo)>>]

\* Lines 337-350: the re-verification of the lower-priority kernel.
FloorUpdate(s, i, dev_mode) ==
  IF NeedFloorUpdate(i, s.stored_lversion, s.try_kernel_lversion[2])
  THEN LET other == s.try_kernel_which[2]
           code == VerifyKernel(EntryOf(s, other).kernel_blob, dev_mode).code
           s1 == [s EXCEPT !.trace = @ \o <<DEv("VerifyKernel", "floor", other, code)>>]
       IN  IF code = VERIFY_KERNEL_SUCCESS THEN WriteFloor(s1) ELSE s1
  ELSE s

\* Lines 351-352.
Select(s, which) ==
  [s EXCEPT !.kernel_to_boot = which, !.found = TRUE,
            !.trace = @ \o <<DEv("select", "", which, 0)>>]

\* Mutant: a failed candidate keeps its priority.
Demote_Keep(k) == k

\* Line 354.
Demote(k) == [k EXCEPT !.boot_priority = 0]

\* Lines 328-354: one iteration of the loop, i = 0 or 1.
LoopBody(s, i, dev_mode) ==
  LET which == s.try_kernel_which[i + 1]
      k == EntryOf(s, which)
      tried == Eligible(k)
      code == VerifyKernel(k.kernel_blob, dev_mode).code
      s1 == IF tried
            THEN [s EXCEPT !.trace = @ \o <<DEv("VerifyKernel", "main", which, code)>>]
            ELSE s
  IN  IF tried /\ code = VERIFY_KERNEL_SUCCESS
      THEN LET s2 == WithEntry(s1, which,
                       [k EXCEPT !.boot_tries_remaining = DecrementTries(@)])
           IN  IF IsRollback(s2.stored_lversion, s2.try_kernel_lversion[i + 1])
               THEN s2
               ELSE Select(FloorUpdate(s2, i, dev_mode), which)
      ELSE WithEntry(s1, which, Demote(k))

\* Mutant: only the key version counter is locked.
LockBoth_KeyOnly(s) ==
  [s EXCEPT
     !.store = LockStoredVersion(@, KERNEL_KEY_VERSION),
     !.trace = @ \o <<DEv("LockStoredVersion", KERNEL_KEY_VERSION, 0, 0)>>]

\* Lines 363-364.
LockBoth(s) ==
  [s EXCEPT
     !.store = LockStoredVersion(LockStoredVersion(@, KERNEL_KEY_VERSION), KERNEL_VERSION),
     !.trace = @ \o <<DEv("LockStoredVersion", KERNEL_KEY_VERSION, 0, 0),
                      DEv("LockStoredVersion", KERNEL_VERSION, 0, 0)>>]

VerifyKernelDriver_f(kA, kB, st, dev_mode) ==
  LET s0 == DriverEntry(kA, kB, st)
      s1 == LoopBody(s0, 0, dev_mode)
      s2 == IF s1.found THEN s1 ELSE LoopBody(s1, 1, dev_mode)
  IN  LockBoth(s2)

(***************************************************************************)
(* Partition table headers (cgpt.h: RepairHeader, IsSynonymous).  A header *)
(* is its content-bearing fields taken together, its own LBA, the LBA of   *)
(* the other copy and its CRC32.                                           *)
(***************************************************************************)
GptContents == {"tableX", "tableY"}

GptLbas == {1, 2, 3}

\* CRC32 of the header with the CRC field zeroed.
HeaderCrc32(content, my_lba, alternate_lba) ==
  (IF content = "tableX" THEN 7 ELSE 11) + 3 * my_lba + 5 * alternate_lba

WrongCrc32 == 0

\* Headers as read from a drive: the stored CRC is that of the header, that
\* of the header with other content, or a value no header has.
GptHeaders ==
  UNION { { [content |-> c, my_lba |-> m, alternate_lba |-> a, header_crc32 |-> crc] :
              crc \in {WrongCrc32} \cup {HeaderCrc32(c2, m, a) : c2 \in GptContents} } :
          c \in GptContents, m \in GptLbas, a \in GptLbas }

CrcCorrect(h) == h.header_crc32 = HeaderCrc32(h.content, h.my_lba, h.alternate_lba)

\* Identical but for the LBA swap and the own CRC.
IsSynonymous(a, b) ==
  /\ a.content = b.content
  /\ a.my_lba = b.alternate_lba
  /\ a.alternate_lba = b.my_lba

\* The validity mask handed to RepairHeader: the copies whose header checks.
ValidHeaders(g) ==
  (IF CrcCorrect(g.primary) THEN {"primary"} ELSE {})
  \cup (IF CrcCorrect(g.secondary) THEN {"secondary"} ELSE {})

\* Mutant: the copy keeps the CRC of the header it was made from.
RebuildFrom_StaleCrc(h) ==
  [h EXCEPT !.my_lba = h.alternate_lba, !.alternate_lba = h.my_lba]

\* The other copy rebuilt from a header: LBA fields swapped, CRC recomputed.
RebuildFrom(h) ==
  [ content |-> h.content, my_lba |-> h.alternate_lba, alternate_lba |-> h.my_lba,
    header_crc32 |-> HeaderCrc32(h.content, h.alternate_lba, h.my_lba) ]

\* The headers after the call and the set of copies it rewrote.
RepairHeader(g, valid_headers) ==
  IF valid_headers = {"primary"}
  THEN [primary |-> g.primary, secondary |-> RebuildFrom(g.primary),
        repaired |-> {"secondary"}]
  ELSE IF valid_headers = {"secondary"}
  THEN [primary |-> RebuildFrom(g.secondary), secondary |-> g.secondary,
        repaired |-> {"primary"}]
  ELSE IF valid_headers = {"primary", "secondary"} /\ ~IsSynonymous(g.primary, g.secondary)
  THEN [primary |-> g.primary, secondary |-> RebuildFrom(g.primary),
        repaired |-> {"secondary"}]
  ELSE [primary |-> g.primary, secondary |-> g.secondary, repaired |-> {}]

(***************************************************************************)
(* State.                                                                  *)
(***************************************************************************)
VARIABLES
  pc,              \* "ready": boot session open, driver not yet run; "returned"
  kernelA,         \* the kernel_entry structs, as the driver leaves them
  kernelB,
  dev_mode,
  store,           \* rollback counter store
  kernel_to_boot,  \* the driver's return value
  trace,           \* collaborator calls of the last driver run, in order
  entry,           \* the driver's inputs as they were at entry
  call,            \* the verifier function applied last, with its arguments
  ret,             \* what it returned
  ret_dev,         \* what the same call on the same inputs returned with dev_mode = 1
  ret_lversion,    \* what GetLogicalKernelVersion returned on the blob of the call
  gpt              \* the two GPT headers, and the last RepairHeader call on them

vars ==
  <<pc, kernelA, kernelB, dev_mode, store, kernel_to_boot, trace, entry, call, ret, ret_dev,
    ret_lversion, gpt>>

NoEntry ==
  [ kernel_blob |-> GoodBlob(0, 0), boot_priority |-> 0,
    boot_tries_remaining |-> 0, boot_success_flag |-> FALSE ]

NoHeader ==
  [ content |-> "tableX", my_lba |-> 1, alternate_lba |-> 3,
    header_crc32 |-> HeaderCrc32("tableX", 1, 3) ]

NoGpt ==
  [ primary |-> NoHeader, secondary |-> RebuildFrom(NoHeader),
    before |-> [primary |-> NoHeader, secondary |-> RebuildFrom(NoHeader)],
    valid_headers |-> {}, repaired |-> {} ]

NoCall ==
  [ fn |-> "none", blob |-> GoodBlob(0, 0), dev_mode |-> FALSE,
    algorithm |-> 0, kernel_len |-> 0 ]

NoRet ==
  [ code |-> 0, firmware_algorithm |-> Unwritten, kernel_algorithm |-> Unwritten,
    kernel_header_len |-> Unwritten, kernel_len |-> Unwritten,
    events |-> <<>>, value |-> 0 ]

(***************************************************************************)
(* Spec: boot sessions, each running the driver once.                      *)
(***************************************************************************)
Init ==
  /\ pc = "ready"
  /\ kernelA = NoEntry
  /\ kernelB = NoEntry
  /\ dev_mode = FALSE
  /\ store \in {st \in Stores : \A slot \in Slots : ~st.locked[slot]}
  /\ kernel_to_boot = BOOT_KERNEL_RECOVERY_CONTINUE
  /\ trace = <<>>
  /\ entry = [kernelA |-> NoEntry, kernelB |-> NoEntry, store |-> store]
  /\ call = NoCall
  /\ ret = NoRet
  /\ ret_dev = NoRet
  /\ ret_lversion = NoRet
  /\ gpt = NoGpt

RunDriver ==
  /\ pc = "ready"
  /\ \E kA \in KernelEntries, kB \in KernelEntries, dm \in BOOLEAN :
       \E s \in {VerifyKernelDriver_f(kA, kB, store, dm)} :
           /\ entry' = [kernelA |-> kA, kernelB |-> kB, store |-> store]
           /\ dev_mode' = dm
           /\ kernelA' = s.kernelA
           /\ kernelB' = s.kernelB
           /\ store' = s.store
           /\ kernel_to_boot' = s.kernel_to_boot
           /\ trace' = s.trace
  /\ pc' = "returned"
  /\ UNCHANGED <<call, ret, ret_dev, ret_lversion, gpt>>

\* The next boot session: the counters keep their values and are unlocked,
\* and nothing else of the last run is kept.
Reboot ==
  /\ pc = "returned"
  /\ pc' = "ready"
  /\ store' = [store EXCEPT !.locked = [slot \in Slots |-> FALSE]]
  /\ kernelA' = NoEntry
  /\ kernelB' = NoEntry
  /\ dev_mode' = FALSE
  /\ kernel_to_boot' = BOOT_KERNEL_RECOVERY_CONTINUE
  /\ trace' = <<>>
  /\ entry' = [kernelA |-> NoEntry, kernelB |-> NoEntry, store |-> store']
  /\ UNCHANGED <<call, ret, ret_dev, ret_lversion, gpt>>

Next == RunDriver \/ Reboot

Spec == Init /\ [][Next]_vars

(***************************************************************************)
(* SpecVK: the verifier functions applied to one blob.                     *)
(***************************************************************************)
InitVK ==
  /\ pc = "idle"
  /\ kernelA = NoEntry
  /\ kernelB = NoEntry
  /\ dev_mode = FALSE
  /\ store = [value |-> [slot \in Slots |-> 0], locked |-> [slot \in Slots |-> FALSE]]
  /\ kernel_to_boot = BOOT_KERNEL_RECOVERY_CONTINUE
  /\ trace = <<>>
  /\ entry = [kernelA |-> NoEntry, kernelB |-> NoEntry, store |-> store]
  /\ call = NoCall
  /\ ret = NoRet
  /\ ret_dev = NoRet
  /\ ret_lversion = NoRet
  /\ gpt = NoGpt

driverVars == <<kernelA, kernelB, dev_mode, store, kernel_to_boot, trace, entry>>

CallVerifyKernel ==
  /\ pc = "idle"
  /\ \E b \in Blobs, dm \in BOOLEAN :
       LET r == VerifyKernel(b, dm)
       IN  /\ call' = [NoCall EXCEPT !.fn = "VerifyKernel", !.blob = b, !.dev_mode = dm]
           /\ ret' = [NoRet EXCEPT !.code = r.code, !.events = r.events]
  /\ pc' = "done"
  /\ UNCHANGED <<driverVars, ret_dev, ret_lversion, gpt>>

CallVerifyKernelHeader ==
  /\ pc = "idle"
  /\ \E b \in Blobs, dm \in BOOLEAN :
       LET r == VerifyKernelHeader(b, dm)
       IN  /\ call' = [NoCall EXCEPT !.fn = "VerifyKernelHeader", !.blob = b,
                                     !.dev_mode = dm]
           /\ ret' = [NoRet EXCEPT !.code = r.code, !.events = r.events,
                                   !.firmware_algorithm = r.firmware_algorithm,
                                   !.kernel_algorithm = r.kernel_algorithm,
                                   !.kernel_header_len = r.kernel_header_len]
  /\ pc' = "done"
  /\ UNCHANGED <<driverVars, ret_dev, ret_lversion, gpt>>

CallGetLogicalKernelVersion ==
  /\ pc = "idle"
  /\ \E b \in Blobs :
       /\ call' = [NoCall EXCEPT !.fn = "GetLogicalKernelVersion", !.blob = b]
       /\ ret' = [NoRet EXCEPT !.value = GetLogicalKernelVersion(b),
                               !.events = GetLogicalKernelVersionRun(b).events]
  /\ pc' = "done"
  /\ UNCHANGED <<driverVars, ret_dev, ret_lversion, gpt>>

CallVerifyKernelConfig ==
  /\ pc = "idle"
  /\ \E b \in Blobs, algorithm \in AlgorithmIds :
       LET r == VerifyKernelConfig(b, algorithm)
       IN  /\ call' = [NoCall EXCEPT !.fn = "VerifyKernelConfig", !.blob = b,
                                     !.algorithm = algorithm]
           /\ ret' = [NoRet EXCEPT !.code = r.code, !.events = r.events,
                                   !.kernel_len = r.kernel_len]
  /\ pc' = "done"
  /\ UNCHANGED <<driverVars, ret_dev, ret_lversion, gpt>>

CallVerifyKernelData ==
  /\ pc = "idle"
  /\ \E b \in Blobs, kernel_len \in KernelLens, algorithm \in AlgorithmIds :
       \E signature_len \in SigLenReads(algorithm) :
         LET r == VerifyKernelData(b, kernel_len, algorithm, signature_len)
         IN  /\ call' = [NoCall EXCEPT !.fn = "VerifyKernelData", !.blob = b,
                                       !.algorithm = algorithm, !.kernel_len = kernel_len]
             /\ ret' = [NoRet EXCEPT !.code = r.code, !.events = r.events]
  /\ pc' = "done"
  /\ UNCHANGED <<driverVars, ret_dev, ret_lversion, gpt>>

\* The call just made in normal mode, made again on the same inputs with
\* dev_mode = 1.
CompareDevMode ==
  /\ pc = "done"
  /\ ~call.dev_mode
  /\ \/ /\ call.fn = "VerifyKernel"
        /\ LET r == VerifyKernel(call.blob, TRUE)
           IN  ret_dev' = [NoRet EXCEPT !.code = r.code, !.events = r.events]
     \/ /\ call.fn = "VerifyKernelHeader"
        /\ LET r == VerifyKernelHeader(call.blob, TRUE)
           IN  ret_dev' = [NoRet EXCEPT !.code = r.code, !.events = r.events,
                                       !.firmware_algorithm = r.firmware_algorithm,
                                       !.kernel_algorithm = r.kernel_algorithm,
                                       !.kernel_header_len = r.kernel_header_len]
  /\ pc' = "compared"
  /\ UNCHANGED <<driverVars, call, ret, ret_lversion, gpt>>

\* GetLogicalKernelVersion applied to the blob VerifyKernel was just called
\* on, as the driver applies both to each candidate.
ReadLogicalVersion ==
  /\ pc = "done"
  /\ call.fn = "VerifyKernel"
  /\ ret_lversion' = [NoRet EXCEPT !.value = GetLogicalKernelVersion(call.blob),
                                   !.events = GetLogicalKernelVersionRun(call.blob).events]
  /\ pc' = "versioned"
  /\ UNCHANGED <<driverVars, call, ret, ret_dev, gpt>>

Return ==
  /\ pc \in {"done", "compared", "versioned"}
  /\ pc' = "idle"
  /\ call' = NoCall
  /\ ret' = NoRet
  /\ ret_dev' = NoRet
  /\ ret_lversion' = NoRet
  /\ UNCHANGED <<driverVars, gpt>>

NextVK ==
  \/ CallVerifyKernel
  \/ CallVerifyKernelHeader
  \/ CallVerifyKernelConfig
  \/ CallVerifyKernelData
  \/ CallGetLogicalKernelVersion
  \/ CompareDevMode
  \/ ReadLogicalVersion
  \/ Return

SpecVK == InitVK /\ [][NextVK]_vars

(***************************************************************************)
(* SpecGPT: a drive's two GPT headers, checked and repaired after each     *)
(* load.                                                                   *)
(***************************************************************************)
InitGPT ==
  /\ pc = "gpt_loaded"
  /\ kernelA = NoEntry
  /\ kernelB = NoEntry
  /\ dev_mode = FALSE
  /\ store = [value |-> [slot \in Slots |-> 0], locked |-> [slot \in Slots |-> FALSE]]
  /\ kernel_to_boot = BOOT_KERNEL_RECOVERY_CONTINUE
  /\ trace = <<>>
  /\ entry = [kernelA |-> NoEntry, kernelB |-> NoEntry, store |-> store]
  /\ call = NoCall
  /\ ret = NoRet
  /\ ret_dev = NoRet
  /\ ret_lversion = NoRet
  /\ \E p \in GptHeaders, q \in GptHeaders :
       gpt = [ primary |-> p, secondary |-> q,
               before |-> [primary |-> p, secondary |-> q],
               valid_headers |-> {}, repaired |-> {} ]

CallRepairHeader ==
  /\ pc = "gpt_loaded"
  /\ \E valid_headers \in {ValidHeaders(gpt)} :
       \E r \in {RepairHeader(gpt, valid_headers)} :
         gpt' = [ primary |-> r.primary, secondary |-> r.secondary,
                  before |-> [primary |-> gpt.primary, secondary |-> gpt.secondary],
                  valid_headers |-> valid_headers, repaired |-> r.repaired ]
  /\ pc' = "gpt_repaired"
  /\ UNCHANGED <<driverVars, call, ret, ret_dev, ret_lversion>>

\* The drive is written to behind the engine's back and loaded again.
ReloadHeaders ==
  /\ pc = "gpt_repaired"
  /\ \E p \in GptHeaders, q \in GptHeaders :
       /\ p = gpt.primary \/ q = gpt.secondary
       /\ gpt' = [ primary |-> p, secondary |-> q,
                   before |-> [primary |-> p, secondary |-> q],
                   valid_headers |-> {}, repaired |-> {} ]
  /\ pc' = "gpt_loaded"
  /\ UNCHANGED <<driverVars, call, ret, ret_dev, ret_lversion>>

NextGPT == CallRepairHeader \/ ReloadHeaders

SpecGPT == InitGPT /\ [][NextGPT]_vars

(***************************************************************************)
(* Vocabulary of the driver claims, read off the state after a run.        *)
(***************************************************************************)
Returned == pc = "returned"

Candidates == {BOOT_KERNEL_A_CONTINUE, BOOT_KERNEL_B_CONTINUE}

AtEntry(w) == IF w = BOOT_KERNEL_A_CONTINUE THEN entry.kernelA ELSE entry.kernelB

AtReturn(w) == IF w = BOOT_KERNEL_A_CONTINUE THEN kernelA ELSE kernelB

OtherCandidate(w) ==
  IF w = BOOT_KERNEL_A_CONTINUE THEN BOOT_KERNEL_B_CONTINUE ELSE BOOT_KERNEL_A_CONTINUE

\* (key_version << 16) | kernel_version of the stored minimum at entry.
StoredAtEntry ==
  entry.store.value[KERNEL_KEY_VERSION] * 65536 + entry.store.value[KERNEL_VERSION]

StoredAtReturn == store.value[KERNEL_KEY_VERSION] * 65536 + store.value[KERNEL_VERSION]

LVersion(w) == GetLogicalKernelVersion(AtEntry(w).kernel_blob)

EligibleAtEntry(w) ==
  AtEntry(w).boot_success_flag \/ AtEntry(w).boot_tries_remaining > 0

Verifies(w) == VerifyKernel(AtEntry(w).kernel_blob, dev_mode).code = VERIFY_KERNEL_SUCCESS

\* The candidates VerifyKernel accepts under the run's dev_mode.  The claims
\* below take this set as their parameter V.
Verifying == {w \in Candidates : Verifies(w)}

\* A candidate that is eligible, verifies and is not a rollback.
QualifiesIn(w, V) == EligibleAtEntry(w) /\ w \in V /\ LVersion(w) >= StoredAtEntry

Qualifies(w) == QualifiesIn(w, Verifying)

\* Descending boot_priority, kernel A first when the priorities are equal.
FirstCandidate ==
  IF entry.kernelB.boot_priority > entry.kernelA.boot_priority
  THEN BOOT_KERNEL_B_CONTINUE ELSE BOOT_KERNEL_A_CONTINUE

SecondCandidate == OtherCandidate(FirstCandidate)

\* The candidate was reached by the priority-ordered pass.
ReachedIn(w, V) == w = FirstCandidate \/ ~QualifiesIn(FirstCandidate, V)

VerifiedInRun(w, tag) ==
  \E n \in 1..Len(trace) :
    /\ trace[n].op = "VerifyKernel" /\ trace[n].tag = tag
    /\ trace[n].which = w /\ trace[n].val = VERIFY_KERNEL_SUCCESS

IsWrite(e) == e.op = "WriteStoredVersion"

Writes == SelectSeq(trace, IsWrite)

MinLVersion ==
  IF LVersion(BOOT_KERNEL_A_CONTINUE) <= LVersion(BOOT_KERNEL_B_CONTINUE)
  THEN LVersion(BOOT_KERNEL_A_CONTINUE) ELSE LVersion(BOOT_KERNEL_B_CONTINUE)

\* What C2 asks of a finished run; V is the set of candidates VerifyKernel accepts.
C2_Holds(V) ==
  kernel_to_boot \in Candidates =>
     /\ EligibleAtEntry(kernel_to_boot)
     /\ VerifiedInRun(kernel_to_boot, "main")
     /\ kernel_to_boot \in V
     /\ LVersion(kernel_to_boot) >= StoredAtEntry

(***************************************************************************)
(* C2: the driver returns kernel A or kernel B only for a candidate that   *)
(* was eligible at entry, passed a full VerifyKernel during this run and   *)
(* has a logical version not below the stored minimum read at entry; a     *)
(* candidate that verified but is below the stored minimum is never        *)
(* returned.                                                               *)
(***************************************************************************)
C2_SelectedQualifies == Returned => C2_Holds(Verifying)

\* Kernel B is returned after kernel A verified and was refused as a rollback.
C2_Witness ==
  /\ Returned
  /\ kernel_to_boot = BOOT_KERNEL_B_CONTINUE
  /\ VerifiedInRun(BOOT_KERNEL_A_CONTINUE, "main")
  /\ LVersion(BOOT_KERNEL_A_CONTINUE) < StoredAtEntry

(***************************************************************************)
(* C3: whenever the driver writes the stored version, the combined value   *)
(* written is at least the combined value stored at entry, and the stored  *)
(* minimum at return is at least the stored minimum at entry (so it never  *)
(* decreases over a sequence of runs, the store being kept between them).  *)
(***************************************************************************)
C3_FloorMonotone ==
  Returned =>
     /\ Len(Writes) \in {0, 2}
     /\ Len(Writes) = 2 =>
          /\ Writes[1].tag = KERNEL_KEY_VERSION
          /\ Writes[2].tag = KERNEL_VERSION
          /\ Writes[1].val * 65536 + Writes[2].val >= StoredAtEntry
     /\ StoredAtReturn >= StoredAtEntry

\* A run that raised the stored version above its entry value.
C3_Witness ==
  /\ Returned
  /\ Len(Writes) = 2
  /\ StoredAtReturn > StoredAtEntry

\* What C4 asks of a finished run; V is the set of candidates VerifyKernel accepts.
C4_WriteCondition(V) ==
  /\ QualifiesIn(FirstCandidate, V)
  /\ LVersion(SecondCandidate) > StoredAtEntry
  /\ SecondCandidate \in V

C4_Holds(V) ==
     IF C4_WriteCondition(V)
     THEN /\ kernel_to_boot = FirstCandidate
          /\ VerifiedInRun(SecondCandidate, "floor")
          /\ Writes = << DEv("WriteStoredVersion", KERNEL_KEY_VERSION, 0,
                             (MinLVersion \div 65536) % 65536),
                         DEv("WriteStoredVersion", KERNEL_VERSION, 0,
                             MinLVersion % 65536) >>
          /\ StoredAtReturn = MinLVersion
     ELSE /\ Writes = << >>
          /\ store.value = entry.store.value

(***************************************************************************)
(* C4: the driver writes the stored version if and only if the             *)
(* higher-priority candidate is selected, the lower-priority candidate's   *)
(* logical version is strictly greater than the stored minimum and the     *)
(* lower-priority candidate passes VerifyKernel in this run; the value     *)
(* written is min(lversionA, lversionB), high 16 bits to KERNEL_KEY_VERSION*)
(* and low 16 bits to KERNEL_VERSION.  Otherwise nothing is written.       *)
(***************************************************************************)
C4_FloorWrite == Returned => C4_Holds(Verifying)

\* The floor is written with the smaller of two different logical versions.
C4_Witness ==
  /\ Returned
  /\ Len(Writes) = 2
  /\ LVersion(FirstCandidate) > LVersion(SecondCandidate)
  /\ StoredAtReturn = LVersion(SecondCandidate)
  /\ StoredAtReturn > StoredAtEntry

C5_Holds(V) ==
  \A w \in Candidates :
     AtReturn(w).boot_priority =
       IF ReachedIn(w, V) /\ ~(EligibleAtEntry(w) /\ w \in V)
       THEN 0 ELSE AtEntry(w).boot_priority

C6_LockedAfterDecision ==
  Returned =>
     /\ \A slot \in Slots : store.locked[slot]
     /\ \A slot \in Slots : \E n \in 1..Len(trace) :
          trace[n].op = "LockStoredVersion" /\ trace[n].tag = slot
     /\ \A n \in 1..Len(trace), m \in 1..Len(trace) :
          (trace[n].op = "LockStoredVersion" /\ m > n) =>
             trace[m].op = "LockStoredVersion"

\* Recovery with both candidates ineligible, counters locked.
C6_Witness ==
  /\ Returned
  /\ kernel_to_boot = BOOT_KERNEL_RECOVERY_CONTINUE
  /\ ~EligibleAtEntry(BOOT_KERNEL_A_CONTINUE)
  /\ ~EligibleAtEntry(BOOT_KERNEL_B_CONTINUE)
  /\ \A slot \in Slots : store.locked[slot]

\* What C7 asks of a finished run; V is the set of candidates VerifyKernel accepts.
C7_Holds(V) ==
  /\ kernel_to_boot \in Candidates \cup {BOOT_KERNEL_RECOVERY_CONTINUE}
  /\ BOOT_KERNEL_RECOVERY_CONTINUE \notin Candidates
  /\ (kernel_to_boot = BOOT_KERNEL_RECOVERY_CONTINUE)
       <=> (\A w \in Candidates : ~QualifiesIn(w, V))
  /\ (\A w \in Candidates : ~EligibleAtEntry(w)) =>
       /\ kernel_to_boot = BOOT_KERNEL_RECOVERY_CONTINUE
       /\ \A n \in 1..Len(trace) : trace[n].op # "VerifyKernel"

(***************************************************************************)
(* C7: the driver returns the recovery sentinel if and only if neither     *)
(* candidate is at once eligible, accepted by VerifyKernel and at or above *)
(* the stored minimum; the sentinel differs from the kernel A and kernel B *)
(* results; with both candidates at success = 0 and tries = 0 the result   *)
(* is recovery and VerifyKernel is never called.                           *)
(***************************************************************************)
C7_RecoveryIffNoneQualifies == Returned => C7_Holds(Verifying)

\* Recovery although both candidates carry well-formed kernels at or above
\* the stored minimum: neither is eligible.
C7_Witness ==
  /\ Returned
  /\ kernel_to_boot = BOOT_KERNEL_RECOVERY_CONTINUE
  /\ \A w \in Candidates :
       /\ ~EligibleAtEntry(w)
       /\ Verifies(w)
       /\ LVersion(w) >= StoredAtEntry

\* What C8 asks of a finished run; V is the set of candidates VerifyKernel accepts.
C8_Holds(V) ==
  /\ QualifiesIn(FirstCandidate, V) => kernel_to_boot = FirstCandidate
  /\ kernel_to_boot = SecondCandidate => ~QualifiesIn(FirstCandidate, V)
  /\ ( /\ entry.kernelA.boot_priority = entry.kernelB.boot_priority
       /\ QualifiesIn(BOOT_KERNEL_A_CONTINUE, V)
       /\ QualifiesIn(BOOT_KERNEL_B_CONTINUE, V) )
       => kernel_to_boot = BOOT_KERNEL_A_CONTINUE

(***************************************************************************)
(* C8: candidates are considered in descending boot_priority, kernel A     *)
(* first on a tie: if the first candidate qualifies it is the result       *)
(* whatever the other candidate is; the second is returned only when the   *)
(* first is ineligible, fails verification or is a rollback; with equal    *)
(* priorities and both qualifying the result is kernel A.                  *)
(***************************************************************************)
C8_PriorityOrder == Returned => C8_Holds(Verifying)

\* Equal non-zero priorities, both candidates qualify, kernel A is returned.
C8_Witness ==
  /\ Returned
  /\ entry.kernelA.boot_priority = entry.kernelB.boot_priority
  /\ entry.kernelA.boot_priority > 0
  /\ Qualifies(BOOT_KERNEL_A_CONTINUE)
  /\ Qualifies(BOOT_KERNEL_B_CONTINUE)
  /\ kernel_to_boot = BOOT_KERNEL_A_CONTINUE

\* What C9 asks of a finished run; V is the set of candidates VerifyKernel accepts.
C9_Holds(V) ==
  \A w \in Candidates :
     /\ AtReturn(w).boot_tries_remaining =
          IF /\ EligibleAtEntry(w)
             /\ VerifiedInRun(w, "main")
             /\ AtEntry(w).boot_tries_remaining > 0
          THEN AtEntry(w).boot_tries_remaining - 1
          ELSE AtEntry(w).boot_tries_remaining
     /\ AtReturn(w).boot_tries_remaining >= 0
     /\ VerifiedInRun(w, "main") <=> (ReachedIn(w, V) /\ EligibleAtEntry(w) /\ w \in V)
     /\ (VerifiedInRun(w, "floor") /\ ~VerifiedInRun(w, "main")) =>
          AtReturn(w).boot_tries_remaining = AtEntry(w).boot_tries_remaining

(***************************************************************************)
(* C9: a candidate's boot_tries_remaining at return is its entry value     *)
(* minus 1 when it was eligible, passed VerifyKernel in the                *)
(* priority-ordered pass and had tries > 0 (a candidate then refused as a  *)
(* rollback included), and is unchanged otherwise; it never goes below 0   *)
(* and the candidate only re-verified for the floor update is not          *)
(* decremented.                                                            *)
(***************************************************************************)
C9_TriesDecrement == Returned => C9_Holds(Verifying)

\* The first candidate is decremented although refused as a rollback, and
\* the selected second candidate, eligible by its success flag alone, stays
\* at 0 tries.
C9_Witness ==
  /\ Returned
  /\ VerifiedInRun(FirstCandidate, "main")
  /\ LVersion(FirstCandidate) < StoredAtEntry
  /\ AtEntry(FirstCandidate).boot_tries_remaining > 0
  /\ AtReturn(FirstCandidate).boot_tries_remaining
       = AtEntry(FirstCandidate).boot_tries_remaining - 1
  /\ kernel_to_boot = SecondCandidate
  /\ AtEntry(SecondCandidate).boot_tries_remaining = 0
  /\ AtReturn(SecondCandidate).boot_tries_remaining = 0

(***************************************************************************)
(* Vocabulary of the verifier claims: the stages of VerifyKernel, read off *)
(* the calls a run made.                                                   *)
(***************************************************************************)
StageOf(e) ==
  CASE e.fn = "VerifyKernel" /\ e.op = "SafeMemcmp" -> "MagicCheck"
    [] e.fn = "VerifyKernelHeader" /\ e.op = "CheckAlgorithm" -> "AlgorithmRange"
    [] e.fn = "VerifyKernelHeader" /\ e.op = "CheckHeaderLen" -> "HeaderLength"
    [] e.fn = "VerifyKernelHeader" /\ e.op = "DigestBuf" -> "HeaderChecksum"
    [] e.fn = "VerifyKernelHeader" /\ e.op = "RSAVerifyBinary_f" -> "KeySignature"
    [] e.fn = "VerifyKernel" /\ e.op = "RSAPublicKeyFromBuf" -> "KeyParse"
    [] e.fn = "VerifyKernelConfig" /\ e.op = "RSAVerifyBinary_f" -> "ConfigVerify"
    [] e.fn = "VerifyKernelData" /\ e.op = "RSAVerifyBinaryWithDigest_f" -> "DataVerify"
    [] OTHER -> "none"

RECURSIVE StagesOf(_)
\* The stages a sequence of calls went through, in order, each once.
StagesOf(events) ==
  IF events = << >> THEN << >>
  ELSE LET rest == StagesOf(Tail(events))
           st == StageOf(Head(events))
       IN  IF st = "none" \/ (rest # << >> /\ Head(rest) = st) THEN rest
           ELSE <<st>> \o rest

StageOrder(dm) ==
  <<"MagicCheck", "AlgorithmRange", "HeaderLength", "HeaderChecksum">>
  \o (IF dm THEN << >> ELSE <<"KeySignature">>)
  \o <<"KeyParse", "ConfigVerify", "DataVerify">>

StageSucceeds(st, b) ==
  CASE st = "MagicCheck" -> b.magic_ok
    [] st = "AlgorithmRange" -> /\ b.firmware_sign_algorithm < kNumAlgorithms
                                /\ b.kernel_sign_algorithm < kNumAlgorithms
    [] st = "HeaderLength" -> b.header_len = ExpectedHeaderLen(b.kernel_sign_algorithm)
    [] st = "HeaderChecksum" -> b.header_checksum_ok
    [] st = "KeySignature" -> b.key_signature_ok
    [] st = "KeyParse" -> b.key_parse_ok
    [] st = "ConfigVerify" -> b.config_signature_ok
    [] st = "DataVerify" -> b.data_signature_ok

\* The codes a failing stage may return; KeyParse has none of its own.
StageCodes(st) ==
  CASE st = "MagicCheck" -> {VERIFY_KERNEL_WRONG_MAGIC}
    [] st = "AlgorithmRange" -> {VERIFY_KERNEL_INVALID_ALGORITHM}
    [] st = "HeaderLength" -> {VERIFY_KERNEL_INVALID_IMAGE}
    [] st = "HeaderChecksum" -> {VERIFY_KERNEL_INVALID_IMAGE}
    [] st = "KeySignature" -> {VERIFY_KERNEL_KEY_SIGNATURE_FAILED}
    [] st = "KeyParse" -> (1..6)
    [] st = "ConfigVerify" -> {VERIFY_KERNEL_CONFIG_SIGNATURE_FAILED}
    [] st = "DataVerify" -> {VERIFY_KERNEL_SIGNATURE_FAILED}

IsPrefix(p, q) == Len(p) <= Len(q) /\ \A n \in 1..Len(p) : p[n] = q[n]

\* The stages run in the fixed order, each only after all earlier ones
\* succeeded; the run stops at the first failing stage with that stage's
\* code, and returns 0 exactly when every stage succeeded.
StagesGated(b, order, run, code) ==
  LET failing == {n \in 1..Len(order) : ~StageSucceeds(order[n], b)}
  IN  /\ IsPrefix(run, order)
      /\ \A j \in 1..Len(run) : \A k \in 1..(j - 1) : StageSucceeds(run[k], b)
      /\ IF failing = {}
         THEN run = order /\ code = VERIFY_KERNEL_SUCCESS
         ELSE LET f == CHOOSE n \in failing : \A m \in failing : n <= m
              IN  Len(run) = f /\ code \in StageCodes(order[f])
      /\ (code = VERIFY_KERNEL_SUCCESS) <=> (failing = {})

(***************************************************************************)
(* C1: VerifyKernel runs its stages in the fixed order MagicCheck,         *)
(* HeaderVerify (algorithm range, header length, header checksum,          *)
(* firmware-key signature unless dev_mode), KeyParse, ConfigVerify,        *)
(* DataVerify; a stage is executed only if every earlier stage succeeded;  *)
(* on the first failing stage it returns that stage's code and runs no     *)
(* later stage; it returns 0 if and only if every stage succeeded.         *)
(***************************************************************************)
C1_StagesGated ==
  call.fn = "VerifyKernel" =>
     StagesGated(call.blob, StageOrder(call.dev_mode), StagesOf(ret.events), ret.code)

\* The same statement on the blobs whose embedded key parses: there it holds,
\* so the outcome of KeyParse is the only thing VerifyKernel does not gate on.
C1_GatedWhenKeyParses ==
  (call.fn = "VerifyKernel" /\ call.blob.key_parse_ok) =>
     StagesGated(call.blob, StageOrder(call.dev_mode), StagesOf(ret.events), ret.code)

(***************************************************************************)
(* C10: for every header whose firmware or kernel signing algorithm ID is  *)
(* greater than or equal to the supported-algorithm count,                 *)
(* VerifyKernelHeader returns InvalidAlgorithm before any key-size or      *)
(* signature-length lookup, digest computation or signature verification,  *)
(* and leaves its output parameters unwritten.                             *)
(***************************************************************************)
C10_InvalidAlgorithmFirst ==
  ( /\ call.fn = "VerifyKernelHeader"
    /\ \/ call.blob.firmware_sign_algorithm >= kNumAlgorithms
       \/ call.blob.kernel_sign_algorithm >= kNumAlgorithms ) =>
     /\ ret.code = VERIFY_KERNEL_INVALID_ALGORITHM
     /\ \A n \in 1..Len(ret.events) : ret.events[n].op = "CheckAlgorithm"
     /\ ret.firmware_algorithm = Unwritten
     /\ ret.kernel_algorithm = Unwritten
     /\ ret.kernel_header_len = Unwritten

\* A header that is sound but for its kernel algorithm ID, the first
\* unsupported one, is refused in normal mode.
C10_Witness ==
  /\ call.fn = "VerifyKernelHeader"
  /\ ~call.dev_mode
  /\ call.blob.firmware_sign_algorithm = 0
  /\ call.blob.kernel_sign_algorithm = kNumAlgorithms
  /\ call.blob.header_checksum_ok
  /\ call.blob.key_signature_ok
  /\ ret.code = VERIFY_KERNEL_INVALID_ALGORITHM
  /\ Len(ret.events) = 2

\* The calls of VerifyKernelHeader whose arguments are computed from the
\* header_len field: the digest over header_len - 64 bytes and the signature
\* check over header_len bytes with the signature at header_blob + header_len.
UsesHeaderLen(e) ==
  e.fn = "VerifyKernelHeader" /\ e.op \in {"DigestBuf", "RSAVerifyBinary_f"}

HashOrSignatureCall(e) ==
  e.op \in {"DigestBuf", "SafeMemcmp", "DigestInit", "DigestUpdate", "DigestFinal",
            "RSAVerifyBinary_f", "RSAVerifyBinaryWithDigest_f"}

(***************************************************************************)
(* C11: for every header with in-range algorithm IDs whose header_len is   *)
(* not the sum of the fixed header sub-field sizes, the processed key size *)
(* of the declared kernel algorithm and the checksum size,                 *)
(* VerifyKernelHeader returns InvalidImage without computing the header    *)
(* digest, without verifying a signature and without a read at an offset   *)
(* derived from header_len.                                                *)
(***************************************************************************)
C11_HeaderLenMismatch ==
  ( /\ call.fn = "VerifyKernelHeader"
    /\ call.blob.firmware_sign_algorithm < kNumAlgorithms
    /\ call.blob.kernel_sign_algorithm < kNumAlgorithms
    /\ call.blob.header_len #
         FIELD_LEN("header_version") + FIELD_LEN("header_len")
         + FIELD_LEN("firmware_sign_algorithm") + FIELD_LEN("kernel_sign_algorithm")
         + FIELD_LEN("kernel_key_version")
         + RSAProcessedKeySize(call.blob.kernel_sign_algorithm)
         + FIELD_LEN("header_checksum") ) =>
     /\ ret.code = VERIFY_KERNEL_INVALID_IMAGE
     /\ \A n \in 1..Len(ret.events) :
          ~HashOrSignatureCall(ret.events[n]) /\ ~UsesHeaderLen(ret.events[n])
     /\ ret.kernel_header_len = Unwritten

\* A header that declares kernel algorithm 11 and carries the length that
\* fits algorithm 0, otherwise sound, is refused in normal mode.
C11_Witness ==
  /\ call.fn = "VerifyKernelHeader"
  /\ ~call.dev_mode
  /\ call.blob.firmware_sign_algorithm = 0
  /\ call.blob.kernel_sign_algorithm = kNumAlgorithms - 1
  /\ call.blob.header_len = ExpectedHeaderLen(0)
  /\ call.blob.header_checksum_ok
  /\ call.blob.key_signature_ok
  /\ ret.code = VERIFY_KERNEL_INVALID_IMAGE
  /\ ret.events[Len(ret.events)].op = "CheckHeaderLen"

\* The firmware-key signature check over the header.
IsKeySignatureCheck(e) == e.fn = "VerifyKernelHeader" /\ e.op = "RSAVerifyBinary_f"

WithoutKeySignatureCheck(events) ==
  SelectSeq(events, LAMBDA e : ~IsKeySignatureCheck(e))

\* r1 is r0 but for the firmware-key signature check.
SameButKeySignature(r0, r1) ==
  /\ r1.code = r0.code
  /\ r1.events = WithoutKeySignatureCheck(r0.events)
  /\ r1.firmware_algorithm = r0.firmware_algorithm
  /\ r1.kernel_algorithm = r0.kernel_algorithm
  /\ r1.kernel_header_len = r0.kernel_header_len

\* What the call returns in normal mode on the same blob with a header
\* signature that verifies.
NormalRunHadSignaturePassed ==
  LET b == [call.blob EXCEPT !.key_signature_ok = TRUE]
  IN  IF call.fn = "VerifyKernel"
      THEN LET r == VerifyKernel(b, FALSE)
           IN  [NoRet EXCEPT !.code = r.code, !.events = r.events]
      ELSE LET r == VerifyKernelHeader(b, FALSE)
           IN  [NoRet EXCEPT !.code = r.code, !.events = r.events,
                             !.firmware_algorithm = r.firmware_algorithm,
                             !.kernel_algorithm = r.kernel_algorithm,
                             !.kernel_header_len = r.kernel_header_len]

(***************************************************************************)
(* C12: dev_mode bypasses the firmware-key signature check and nothing     *)
(* else.  For two runs of VerifyKernel, or of VerifyKernelHeader, on the   *)
(* same inputs, one with dev_mode = 0 and one with dev_mode = 1, the       *)
(* dev-mode run returns what the normal run returns, except that where the *)
(* normal run fails with KeySignatureFailed the dev-mode run continues as  *)
(* if that check had passed; the other outcomes are the same in both modes.*)
(***************************************************************************)
C12_DevModeBypassesKeySignatureOnly ==
  pc = "compared" =>
     IF ret.code = VERIFY_KERNEL_KEY_SIGNATURE_FAILED
     THEN SameButKeySignature(NormalRunHadSignaturePassed, ret_dev)
     ELSE SameButKeySignature(ret, ret_dev)

\* The normal run stops at the header signature; the dev-mode run goes on
\* and fails at the config signature.
C12_Witness ==
  /\ pc = "compared"
  /\ call.fn = "VerifyKernel"
  /\ ret.code = VERIFY_KERNEL_KEY_SIGNATURE_FAILED
  /\ ret_dev.code = VERIFY_KERNEL_CONFIG_SIGNATURE_FAILED

\* Positions in a sequence of calls.
CallsOf(events, fn, op) == {n \in 1..Len(events) : events[n].fn = fn /\ events[n].op = op}

CallsIn(events, fn) == {n \in 1..Len(events) : events[n].fn = fn}

\* The payload span VerifyKernelData feeds to the digest: the DigestUpdate
\* calls on kernel_data_start.
PayloadUpdates(events) ==
  {n \in CallsOf(events, "VerifyKernelData", "DigestUpdate") :
     events[n].arg[1] = "kernel_data_start"}

(***************************************************************************)
(* C13: VerifyKernelConfig reads kernel_len from the config region and     *)
(* writes it to its output only after the config signature has verified;   *)
(* when the signature check fails it returns ConfigSignatureFailed with    *)
(* the kernel_len output untouched, so VerifyKernelData is never invoked   *)
(* with a kernel_len taken from an unverified config block.                *)
(***************************************************************************)
C13_KernelLenAfterConfigVerify ==
  /\ call.fn = "VerifyKernelConfig" =>
       LET verify == CallsOf(ret.events, "VerifyKernelConfig", "RSAVerifyBinary_f")
           read == CallsOf(ret.events, "VerifyKernelConfig", "Memcpy")
       IN  /\ verify = {1}
           /\ IF call.blob.config_signature_ok
              THEN /\ ret.code = VERIFY_KERNEL_SUCCESS
                   /\ read = {2}
                   /\ ret.kernel_len = call.blob.kernel_len
              ELSE /\ ret.code = VERIFY_KERNEL_CONFIG_SIGNATURE_FAILED
                   /\ read = {}
                   /\ ret.kernel_len = Unwritten
  /\ (call.fn = "VerifyKernel" /\ CallsIn(ret.events, "VerifyKernelData") # {}) =>
       /\ call.blob.config_signature_ok
       /\ \E v \in CallsOf(ret.events, "VerifyKernelConfig", "RSAVerifyBinary_f"),
             r \in CallsOf(ret.events, "VerifyKernelConfig", "Memcpy") :
             /\ v < r
             /\ \A d \in CallsIn(ret.events, "VerifyKernelData") : r < d
       /\ \A n \in PayloadUpdates(ret.events) :
             ret.events[n].arg[3] = call.blob.kernel_len

\* The config signature does not verify: nothing is read from the config
\* and the output is left alone.
C13_Witness ==
  /\ call.fn = "VerifyKernelConfig"
  /\ ~call.blob.config_signature_ok
  /\ call.blob.kernel_len = 2
  /\ ret.code = VERIFY_KERNEL_CONFIG_SIGNATURE_FAILED
  /\ ret.kernel_len = Unwritten
  /\ Len(ret.events) = 1

(***************************************************************************)
(* C14: if the embedded kernel public key cannot be parsed into a          *)
(* public-key object, VerifyKernel returns a non-success result and runs   *)
(* neither ConfigVerify nor DataVerify with the unparsed key.              *)
(***************************************************************************)
C14_KeyParseFailureRefused ==
  ( /\ call.fn = "VerifyKernel"
    /\ CallsOf(ret.events, "VerifyKernel", "RSAPublicKeyFromBuf") # {}
    /\ ~call.blob.key_parse_ok ) =>
     /\ ret.code # VERIFY_KERNEL_SUCCESS
     /\ CallsIn(ret.events, "VerifyKernelConfig") = {}
     /\ CallsIn(ret.events, "VerifyKernelData") = {}

\* The digest and signature calls of VerifyKernelData among a sequence of calls.
DataDigestCalls(events) ==
  SelectSeq(events, LAMBDA e : e.fn = "VerifyKernelData" /\ HashOrSignatureCall(e))

\* init, update(config region), update(kernel_len payload bytes after the
\* signature block), final, then the signature at data_start checked against
\* that digest.
DataDigestAsStated(calls, algorithm, kernel_len) ==
  /\ Len(calls) = 5
  /\ calls[1].op = "DigestInit"
  /\ calls[2].op = "DigestUpdate"
  /\ calls[2].arg = <<"kernel_config_start", 0, KERNEL_CONFIG_FIELD_LEN>>
  /\ calls[3].op = "DigestUpdate"
  /\ calls[3].arg = <<"kernel_data_start", siglen_map[algorithm + 1], kernel_len>>
  /\ calls[4].op = "DigestFinal"
  /\ calls[5].op = "RSAVerifyBinaryWithDigest_f"
  /\ calls[5].arg = <<"kernel_data_start", 0, algorithm>>

(***************************************************************************)
(* C15: VerifyKernelData verifies the signature at data_start against a    *)
(* digest whose input is exactly the fixed-size config region followed by  *)
(* the kernel_len payload bytes that start right after the signature block *)
(* (data_start + signature length of the kernel algorithm), fed through    *)
(* init, update(config), update(payload), final in that order; it returns  *)
(* DataSignatureFailed if the signature does not match that digest and     *)
(* success otherwise.                                                      *)
(***************************************************************************)
C15_DataDigestSpans ==
  /\ (call.fn = "VerifyKernelData" /\ call.algorithm < kNumAlgorithms) =>
       /\ DataDigestAsStated(DataDigestCalls(ret.events), call.algorithm, call.kernel_len)
       /\ ret.code = IF call.blob.data_signature_ok THEN VERIFY_KERNEL_SUCCESS
                     ELSE VERIFY_KERNEL_SIGNATURE_FAILED
  /\ (call.fn = "VerifyKernel" /\ CallsIn(ret.events, "VerifyKernelData") # {}) =>
       /\ DataDigestAsStated(DataDigestCalls(ret.events),
                             call.blob.kernel_sign_algorithm, call.blob.kernel_len)
       /\ ret.code = IF call.blob.data_signature_ok THEN VERIFY_KERNEL_SUCCESS
                     ELSE VERIFY_KERNEL_SIGNATURE_FAILED

\* A payload of 2 bytes under algorithm 11, whose signature block is 1024
\* bytes long, with a signature that does not match.
C15_Witness ==
  /\ call.fn = "VerifyKernelData"
  /\ call.algorithm = kNumAlgorithms - 1
  /\ call.kernel_len = 2
  /\ ~call.blob.data_signature_ok
  /\ ret.code = VERIFY_KERNEL_SIGNATURE_FAILED
  /\ \E n \in PayloadUpdates(ret.events) :
        ret.events[n].arg = <<"kernel_data_start", 1024, 2>>

\* A read of the signature-length table or of the key-size table.
IsTableLookup(e) == e.op \in {"siglen_map", "RSAProcessedKeySize"}

(***************************************************************************)
(* C16: GetLogicalKernelVersion returns 0 whenever the firmware or the     *)
(* kernel algorithm ID read from the blob is out of range, before indexing *)
(* the signature-length table or the key-size table; for in-range IDs it   *)
(* returns (kernel_key_version << 16) | kernel_version.                    *)
(***************************************************************************)
C16_LogicalVersion ==
  call.fn = "GetLogicalKernelVersion" =>
     IF \/ call.blob.firmware_sign_algorithm >= kNumAlgorithms
        \/ call.blob.kernel_sign_algorithm >= kNumAlgorithms
     THEN /\ ret.value = 0
          /\ \A n \in 1..Len(ret.events) : ~IsTableLookup(ret.events[n])
     ELSE ret.value = call.blob.kernel_key_version * Pow16 + call.blob.kernel_version

\* Key version 1 and kernel version 1 under an unsupported kernel algorithm:
\* the result is 0, and the last thing done is the range check.
C16_Witness ==
  /\ call.fn = "GetLogicalKernelVersion"
  /\ call.blob.firmware_sign_algorithm = 0
  /\ call.blob.kernel_sign_algorithm = kNumAlgorithms
  /\ call.blob.kernel_key_version = 1
  /\ call.blob.kernel_version = 1
  /\ ret.value = 0
  /\ ret.events[Len(ret.events)].op = "CheckAlgorithm"

(***************************************************************************)
(* C17: for every GPT state in which exactly one of the primary and the    *)
(* secondary header has a correct CRC, RepairHeader leaves two headers     *)
(* that are synonymous and both CRC-correct, and the content-bearing       *)
(* fields of the header that was valid before the call are unchanged.      *)
(***************************************************************************)
C17_RepairHeader ==
  ( /\ pc = "gpt_repaired"
    /\ CrcCorrect(gpt.before.primary) # CrcCorrect(gpt.before.secondary) ) =>
     /\ IsSynonymous(gpt.primary, gpt.secondary)
     /\ CrcCorrect(gpt.primary)
     /\ CrcCorrect(gpt.secondary)
     /\ IF CrcCorrect(gpt.before.primary)
        THEN gpt.primary.content = gpt.before.primary.content
        ELSE gpt.secondary.content = gpt.before.secondary.content

\* The primary header is corrupt and describes another table than the
\* secondary, which is sound: the primary is rebuilt from the secondary.
C17_Witness ==
  /\ pc = "gpt_repaired"
  /\ ~CrcCorrect(gpt.before.primary)
  /\ CrcCorrect(gpt.before.secondary)
  /\ gpt.before.primary.content # gpt.before.secondary.content
  /\ gpt.repaired = {"primary"}
  /\ gpt.primary.content = gpt.before.secondary.content
  /\ gpt.secondary = gpt.before.secondary

\* The lookup at position n is preceded, in the function that makes it, by a
\* range check of the ID it indexes with.
RangeCheckedBefore(events, n) ==
  \E k \in 1..(n - 1) :
     /\ events[k].fn = events[n].fn
     /\ events[k].op = "CheckAlgorithm"
     /\ events[k].arg = events[n].arg

\* The premise of C18: each lookup has its range check in the same function.
\* It fails for VerifyKernel (lines 196, 204, 205) and VerifyKernelData
\* (line 141), which have none of their own.
C18_CheckedWithinCallSite ==
  call.fn # "none" =>
     \A n \in 1..Len(ret.events) :
        IsTableLookup(ret.events[n]) => RangeCheckedBefore(ret.events, n)

(***************************************************************************)
(* C18: at every call site that indexes siglen_map or the key-size table   *)
(* (in VerifyKernelHeader, VerifyKernel, VerifyKernelData and              *)
(* GetLogicalKernelVersion) a range check of the algorithm ID against the  *)
(* supported-algorithm count precedes the lookup within that call site, so *)
(* no table is ever indexed with an ID >= the count, also when             *)
(* VerifyKernelData is called directly with an arbitrary algorithm         *)
(* argument.  The formula is what the claim concludes: in every call of    *)
(* the four functions, every lookup is made with an ID below the count.    *)
(***************************************************************************)
C18_NoLookupOutOfRange ==
  call.fn # "none" =>
     \A n \in 1..Len(ret.events) :
        IsTableLookup(ret.events[n]) => ret.events[n].arg < kNumAlgorithms

\* The argument of the one call of op that fn made.
ArgOf(events, fn, op) == events[CHOOSE n \in CallsOf(events, fn, op) : TRUE].arg

\* The offset from kernel_blob at which a run read the field.
ReadOffset(events, field) ==
  LET n == CHOOSE k \in 1..Len(events) :
              events[k].op = "Memcpy" /\ events[k].arg[1] = field
  IN  events[n].arg[2]

(***************************************************************************)
(* C19: for every blob on which VerifyKernel succeeds, the offsets at      *)
(* which GetLogicalKernelVersion reads kernel_key_version and              *)
(* kernel_version coincide with the offsets VerifyKernel uses: the key     *)
(* version lies inside the checksummed header, and the kernel version is   *)
(* the first field of the config region at header start + header_len +     *)
(* firmware signature length.  The logical version of a verified kernel is *)
(* thus made of bytes covered by its verification, and every offset used   *)
(* is a function of the range-checked algorithm IDs and the validated      *)
(* header length.                                                          *)
(***************************************************************************)
C19_VersionOffsetsCoincide ==
  (pc = "versioned" /\ ret.code = VERIFY_KERNEL_SUCCESS) =>
     LET header_start == KERNEL_MAGIC_SIZE
         checksummed_len == ArgOf(ret.events, "VerifyKernelHeader", "DigestBuf")
         config_start == ArgOf(ret.events, "VerifyKernel", "config_ptr")
         key_version_at == ReadOffset(ret_lversion.events, "kernel_key_version")
         kernel_version_at == ReadOffset(ret_lversion.events, "kernel_version")
         reads == ret_lversion.events
     IN  /\ key_version_at + FIELD_LEN("kernel_key_version")
              = header_start + base_header_checksum_offset
         /\ key_version_at >= header_start
         /\ key_version_at + FIELD_LEN("kernel_key_version")
              <= header_start + checksummed_len
         /\ kernel_version_at = config_start
         /\ config_start = header_start + call.blob.header_len
                             + siglen_map[call.blob.firmware_sign_algorithm + 1]
         /\ \A n \in 1..Len(reads) : IsTableLookup(reads[n]) =>
                /\ reads[n].arg < kNumAlgorithms
                /\ RangeCheckedBefore(reads, n)
         /\ ret_lversion.value
              = call.blob.kernel_key_version * Pow16 + call.blob.kernel_version

\* A kernel signed under algorithm 11 with a header signed under algorithm
\* 0 verifies; its kernel version is read 2266 bytes into the blob, where
\* its config region starts.
C19_Witness ==
  /\ pc = "versioned"
  /\ ret.code = VERIFY_KERNEL_SUCCESS
  /\ call.blob.firmware_sign_algorithm = 0
  /\ call.blob.kernel_sign_algorithm = kNumAlgorithms - 1
  /\ call.blob.kernel_key_version = 1
  /\ call.blob.kernel_version = 1
  /\ ReadOffset(ret_lversion.events, "kernel_version") = 2266
  /\ ArgOf(ret.events, "VerifyKernel", "config_ptr") = 2266
  /\ ret_lversion.value = 65537

(***************************************************************************)
(* C20 as stated: in every write the driver issues to the counter store,   *)
(* the value written to the KERNEL_KEY_VERSION slot is not lower than the  *)
(* value stored in that slot, and the value written to the KERNEL_VERSION  *)
(* slot is not lower than the value stored in that slot.                   *)
(***************************************************************************)
C20_Original ==
  Returned =>
     \A n \in 1..Len(Writes) : Writes[n].val >= entry.store.value[Writes[n].tag]

(***************************************************************************)
(* C20 amended: the value written to the KERNEL_KEY_VERSION slot is not    *)
(* lower than the value stored in that slot, and the value written to the  *)
(* KERNEL_VERSION slot is not lower than the value stored in that slot     *)
(* when the key version written equals the stored key version; when the    *)
(* key version written is higher, the kernel version written may be lower  *)
(* than the stored one.                                                    *)
(***************************************************************************)
C20_SlotsLexicographic ==
  Returned =>
     \A n \in 1..Len(Writes) :
        \/ Writes[n].val >= entry.store.value[Writes[n].tag]
        \/ /\ Writes[n].tag = KERNEL_VERSION
           /\ \E k \in 1..(n - 1) :
                 /\ Writes[k].tag = KERNEL_KEY_VERSION
                 /\ Writes[k].val > entry.store.value[KERNEL_KEY_VERSION]

\* The key version slot goes up and the kernel version slot goes down.
C20_Witness ==
  /\ Returned
  /\ Len(Writes) = 2
  /\ Writes[1].tag = KERNEL_KEY_VERSION
  /\ Writes[1].val > entry.store.value[KERNEL_KEY_VERSION]
  /\ Writes[2].tag = KERNEL_VERSION
  /\ Writes[2].val < entry.store.value[KERNEL_VERSION]

\* The candidates a VerifyKernel call of this run accepted.
VerifiedInThisRun == {w \in Candidates : VerifiedInRun(w, "main") \/ VerifiedInRun(w, "floor")}

(***************************************************************************)
(* C21 as stated: when the driver returns kernel A or kernel B, the        *)
(* returned kernel's logical version is at least the stored minimum at     *)
(* return, and the stored minimum at return is no greater than the logical *)
(* version of either candidate that verified.                              *)
(***************************************************************************)
C21_Original ==
  (Returned /\ kernel_to_boot \in Candidates) =>
     /\ LVersion(kernel_to_boot) >= StoredAtReturn
     /\ \A w \in VerifiedInThisRun : StoredAtReturn <= LVersion(w)

(***************************************************************************)
(* C21 amended: when the driver returns kernel A or kernel B, the returned *)
(* kernel's logical version is at least the stored minimum at return       *)
(* (after any floor raise of the same run), and the stored minimum at      *)
(* return is no greater than the logical version of either candidate that  *)
(* verified and was not below the stored minimum read at entry.            *)
(***************************************************************************)
C21_FloorBelowAccepted ==
  (Returned /\ kernel_to_boot \in Candidates) =>
     /\ LVersion(kernel_to_boot) >= StoredAtReturn
     /\ \A w \in VerifiedInThisRun :
           LVersion(w) >= StoredAtEntry => StoredAtReturn <= LVersion(w)

\* The floor was raised in the run, to a value below the winner's own version.
C21_Witness ==
  /\ Returned
  /\ kernel_to_boot \in Candidates
  /\ Len(Writes) = 2
  /\ StoredAtReturn > StoredAtEntry
  /\ VerifiedInThisRun = Candidates
  /\ LVersion(kernel_to_boot) > StoredAtReturn

\* The objects a verifier call can allocate.
Objects == {HeaderChecksumObj, DigestObj, KernelSignKeyObj}

\* The pointer an allocating call of the verifier hands back: DigestBuf
\* (line 90), DigestFinal (line 151), RSAPublicKeyFromBuf (line 202).
AllocatedBy(b, e) ==
  IF e.fn = "VerifyKernelHeader" /\ e.op = "DigestBuf" THEN HeaderChecksumObj
  ELSE IF e.fn = "VerifyKernelData" /\ e.op = "DigestFinal" THEN DigestObj
  ELSE IF e.fn = "VerifyKernel" /\ e.op = "RSAPublicKeyFromBuf" THEN ParsedKey(b)
  ELSE NullObj

IsRelease(e) == e.op \in {"Free", "RSAPublicKeyFree"}

AllocsOf(b, events, o) == {n \in 1..Len(events) : AllocatedBy(b, events[n]) = o}

ReleasesOf(events, o) == {n \in 1..Len(events) : IsRelease(events[n]) /\ events[n].arg = o}

\* Object o is allocated at most once, released as often as it is allocated,
\* and released only after it was allocated.
ReleasedExactlyOnce(b, events, o) ==
  /\ Cardinality(AllocsOf(b, events, o)) <= 1
  /\ Cardinality(ReleasesOf(events, o)) = Cardinality(AllocsOf(b, events, o))
  /\ \A r \in ReleasesOf(events, o) : \E a \in AllocsOf(b, events, o) : a < r

(***************************************************************************)
(* C22: every object VerifyKernel and its stages allocate is released      *)
(* exactly once on every return path: the parsed key on config failure,    *)
(* data failure and success, the header checksum digest on hash mismatch   *)
(* and match, the payload digest on both signature outcomes; none is held  *)
(* at return, freed twice or freed before it was allocated.                *)
(***************************************************************************)
C22_ReleasedExactlyOnce ==
  (pc = "done" /\ call.fn \in {"VerifyKernel", "VerifyKernelHeader", "VerifyKernelData"}) =>
     \A o \in Objects : ReleasedExactlyOnce(call.blob, ret.events, o)

\* VerifyKernelData fails inside VerifyKernel: all three objects were
\* allocated and each has been released.
C22_Witness ==
  /\ pc = "done"
  /\ call.fn = "VerifyKernel"
  /\ ret.code = VERIFY_KERNEL_SIGNATURE_FAILED
  /\ \A o \in Objects :
        /\ Cardinality(AllocsOf(call.blob, ret.events, o)) = 1
        /\ Cardinality(ReleasesOf(ret.events, o)) = 1

====
